---- MODULE Spec2Model ----
(***************************************************************************)
(* A model of the ppk verification-and-packaging pipeline.                 *)
(*                                                                         *)
(*   src/ppk/libs/pack.py   PPKPacker: main and its thirteen steps         *)
(*   src/ppk/bin/ppk.py     Main.run: the process entry point              *)
(*   src/lib/pack.py        the earlier PPKPacker (download with retry)    *)
(*   src/lib/pip.py         the earlier Download class                     *)
(*                                                                         *)
(* A file name is a record of its hyphen-delimited fields (stem), a suffix *)
(* glued to the last field, and its extension.  A workspace is a directory *)
(* of the file system fs; the destination of the archives is desktop.      *)
(***************************************************************************)
EXTENDS Integers, Sequences, FiniteSets, TLC

VARIABLES
    args,         \* the argparse.Namespace handed to PPKPacker (never assigned)
    sysconfig,    \* the loaded configuration: the configured test names
    pc,           \* position of the control flow in PPKPacker.main / Main.run
    runs,         \* how many times main has been invoked on this object
    _name, _namev, _ofname, _pass, _passflags, _pkgpath,
    _pkg_version, _py_version, _abi, _platform, _p_key, _p_log, _tmpdir,
    fs,           \* the directories under /tmp: [exists, files, log, key]
    desktop,      \* the archives at the destination: a set of [name, pw, files]
    now,          \* the wall clock, in seconds
    ret,          \* value returned by the last main()
    excode,       \* the exit code of the process
    exc,          \* the exception that escaped main
    results,      \* the results dictionary built by _verify_wheels in this invocation
    executed,     \* the steps of main executed in this invocation
    archiver,     \* the last Popen of 7z: [invoked, pass, files, wsfiles]
    lg,           \* the state of the earlier pipeline (src/lib)
    up,           \* the unpack path of Main.run: the PPKUnPacker and its environment
    vt,           \* one call of a test of the Tests class: its inputs and its outcome
    cc,           \* invocations of the pipeline running side by side
    ld            \* the result ledger applied to one dictionary of results

-----------------------------------------------------------------------------
(* Bounds of the model. *)

\* main is invoked at most this many times on one PPKPacker object.
MaxRuns == 2

-----------------------------------------------------------------------------
(* Values. *)

None == "None"

NoFile == [stem |-> <<>>, suffix |-> "", ext |-> ""]

NoPath == [dir |-> 0, name |-> NoFile]

NoLog == [header |-> <<>>, rows |-> <<>>, summary |-> ""]

NoDir == [exists |-> FALSE, files |-> {}, log |-> NoLog, key |-> -1]

EmptyDir == [exists |-> TRUE, files |-> {}, log |-> NoLog, key |-> -1]

\* One directory name per invocation is enough: see _make_download_directory.
DirNames == 1..MaxRuns

TargetWhl == [stem |-> <<"preqs", "0.2.0", "py3", "none", "any">>, suffix |-> "", ext |-> "whl"]

DepWhl == [stem |-> <<"packaging", "24.0", "py3", "none", "any">>, suffix |-> "", ext |-> "whl"]

DepGz == [stem |-> <<"packaging", "24.0">>, suffix |-> "", ext |-> "tar.gz"]

ReqPath == "requirements.txt"

\* The archive handed to the unpack path.
ArchivePath == "preqs-0.2.0-py3-none-any.7z"

\* What the PPKPacker fields hold after __init__.
InitFields ==
    /\ _abi = "unset"
    /\ _name = None
    /\ _namev = None
    /\ _ofname = <<>>
    /\ _pass = FALSE
    /\ _passflags = <<>>
    /\ _pkgpath = NoFile
    /\ _pkg_version = "unset"
    /\ _py_version = "unset"
    /\ _platform = "unset"
    /\ _p_key = NoPath
    /\ _p_log = NoPath
    /\ _tmpdir = 0

fields == <<_name, _namev, _ofname, _pass, _passflags, _pkgpath,
            _pkg_version, _py_version, _abi, _platform, _p_key, _p_log, _tmpdir>>

ghosts == <<results, executed, archiver>>

vars == <<args, sysconfig, pc, runs, fields, fs, desktop, now, ret, excode, exc, ghosts, lg, up, vt, cc, ld>>

-----------------------------------------------------------------------------
(* Python helpers. *)

\* re.split('[<>=]', pkg, maxsplit=k) over a string given as its tokens, every
\* operator character a token of its own: the list of the pieces.
chars == {"<", ">", "="}

RECURSIVE re_split(_, _)
re_split(s, k) ==
    IF k = 0 \/ ~(\E i \in 1..Len(s) : s[i] \in chars)
    THEN <<s>>
    ELSE LET i == CHOOSE j \in 1..Len(s) :
                      /\ s[j] \in chars
                      /\ \A h \in 1..(j - 1) : s[h] \notin chars
         IN  <<SubSeq(s, 1, i - 1)>> \o re_split(SubSeq(s, i + 1, Len(s)), k - 1)

\* ''.join(tokens)
RECURSIVE join(_)
join(s) == IF s = <<>> THEN "" ELSE Head(s) \o join(Tail(s))

\* utilities.normalise_name, on the names the model uses.
normalise_name(name) ==
    CASE name = "Preqs" -> "preqs"
      [] name = "PREQS" -> "preqs"
      [] OTHER -> name

\* str(n) of a small number
strn(n) ==
    CASE n = 0 -> "0"
      [] n = 1 -> "1"
      [] n = 2 -> "2"
      [] n = 3 -> "3"
      [] n = 4 -> "4"
      [] n = 5 -> "5"
      [] n = 6 -> "6"
      [] n = 7 -> "7"
      [] n = 8 -> "8"
      [] OTHER -> "9"

\* map(str, t) of one test's result tuple: the flag, then the counts.
strs(t) ==
    [i \in 1..Len(t) |-> IF i = 1 THEN (IF t[1] THEN "True" ELSE "False") ELSE strn(t[i])]

\* dt.now().strftime('%Y%m%d%H%M%S')
strftime(t) == "20240101T00000" \o strn(t)

\* As all, but looking at the flags of the last test only.
all_last_only(flags) == flags = <<>> \/ flags[Len(flags)]

\* all(flags) of a list
all(flags) == \A i \in 1..Len(flags) : flags[i]

\* glob(os.path.join(tmpdir, '*')): the list of the directory's files. The order
\* of a glob is arbitrary; the model lists the files in one fixed order.
RECURSIVE listing(_)
listing(S) ==
    IF S = {} THEN <<>>
    ELSE LET f == CHOOSE x \in S : TRUE IN <<f>> \o listing(S \ {f})

glob(d) == IF fs[d].exists THEN listing(fs[d].files) ELSE <<>>

\* os.path.splitext(fname)[1] == '.gz'
is_gz(f) == f.ext = "tar.gz"

LogName(ofname) == [stem |-> ofname, suffix |-> "__verification", ext |-> "log"]

KeyName(ofname) == [stem |-> ofname, suffix |-> "__verification", ext |-> "key"]

ReqCopyName(ofname) == [stem |-> ofname, suffix |-> "", ext |-> "txt"]

\* crypto.checksum_sha256(path): a digest of the lines of the log.
RECURSIVE rows_digest(_, _)
rows_digest(rows, acc) ==
    IF rows = <<>> THEN acc
    ELSE rows_digest(Tail(rows),
                     (acc * 31 + Len(Head(rows).vals) * 2
                               + (IF Head(rows).result = "pass" THEN 1 ELSE 0)) % 65521)

checksum_sha256(log) ==
    (rows_digest(log.rows, 7 + Len(log.header)) * 3
        + (CASE log.summary = "PASS" -> 1 [] log.summary = "FAIL" -> 2 [] OTHER -> 0)) % 65521

\* hashlib.sha256(fname.encode()).hexdigest(): the password is a function of the name.
_generate_archive_filename(ofname) ==
    [fname |-> [stem |-> ofname, suffix |-> "", ext |-> "7z"],
     hash  |-> <<"sha256", ofname, "7z">>]

-----------------------------------------------------------------------------
(* The tests of the Tests class, as functions of what the package index and   *)
(* the vulnerability source answer. An outcome is the tuple returned or the   *)
(* exception raised.                                                          *)

Returned(t) == [raised |-> None, ret |-> t]

Raised(e) == [raised |-> e, ret |-> <<>>]

\* Two versions, as the lists of their characters: 1.0 and 1.1.0.
V10 == <<"1", ".", "0">>

V110 == <<"1", ".", "1", ".", "0">>

TestVersions == {V10, V110}

\* Two files of a release, and two digests.
WhlName == "preqs-1.0-py3-none-any.whl"

GzName == "preqs-1.0.tar.gz"

Digests == {"d1", "d2"}

\* The records of one release in the JSON of the index: no file listed twice.
Records == [filename : {WhlName, GzName}, md5 : Digests]

RecordLists ==
    {<<>>} \cup {<<r>> : r \in Records}
           \cup {x \in Records \X Records : x[1].filename # x[2].filename}

\* What requests.get of the index can give: no answer, a status other than 200, or
\* the JSON of the package with the releases it lists.
Responses ==
    {[error |-> "ConnectionError", status |-> 0, releases |-> <<>>],
     [error |-> None, status |-> 404, releases |-> <<>>]}
    \cup
    [error : {None}, status : {200},
     releases : UNION {[VS -> RecordLists] : VS \in SUBSET TestVersions}]

\* utilities.query_pypi(pkg)
query_pypi(r) ==
    IF r.error # None THEN Raised(r.error)
    ELSE IF r.status = 200 THEN Returned(r.releases)
    ELSE Raised("RuntimeWarning")

\* Tests.md5(fpath, name, version), with md5c the digest of the file at fpath.
md5(fname, version, md5c, r) ==
    LET data == query_pypi(r)
    IN  IF data.raised # None THEN Raised(data.raised)
        ELSE IF version \notin DOMAIN data.ret THEN Raised("KeyError")
        ELSE LET recs == data.ret[version]
                 hits == {i \in 1..Len(recs) : recs[i].filename = fname}
                 md5p == IF hits = {} THEN None
                         ELSE recs[CHOOSE i \in hits : \A j \in hits : i <= j].md5
             IN  Returned(<<md5c = md5p>>)

\* str.endswith, on lists of characters
endswith(s_, t) ==
    /\ Len(t) <= Len(s_)
    /\ SubSeq(s_, Len(s_) - Len(t) + 1, Len(s_)) = t

\* The link of a row of the versions table.
href(version) == <<"/", "p", "r", "e", "q", "s", "/">> \o version

\* The text of the third cell of a row: the counts and their letters, or nothing.
CellTexts ==
    {<<>>,
     <<"0", "C", "0", "H", "0", "M", "1", "L">>,
     <<"0", "C", "1", "H", "0", "M", "0", "L">>}

\* A row of the versions table: its link, whether it has cells, the third cell.
TableRows ==
    [href : {href(v) : v \in TestVersions}, td : {TRUE}, text : CellTexts]
    \cup [href : {href(v) : v \in TestVersions}, td : {FALSE}, text : {<<>>}]

\* What requests.get of the vulnerability source can give: no answer in time, a
\* page without the table, a table without a row, or a table with its header row
\* and up to two rows, no version listed twice. detail is the answer to the
\* second request, made when a count is not zero.
Pages ==
    [error : {"Timeout"}, div : {FALSE}, trs : {<<>>}, detail : {None}]
    \cup [error : {None}, div : {FALSE}, trs : {<<>>}, detail : {None}]
    \cup [error : {None}, div : {TRUE},
          trs : {<<>>, <<"header">>}
                  \cup {<<"header", r>> : r \in TableRows}
                  \cup {<<"header", x[1], x[2]>> :
                            x \in {y \in TableRows \X TableRows : y[1].href # y[2].href}},
          detail : {None, "Timeout"}]

\* int(x) of a token of a cell
int(x) ==
    CASE x = "0" -> 0
      [] x = "1" -> 1
      [] OTHER -> -1

\* list(map(int, vuln[::2]))
vuln_n(vuln) == [i \in 1..((Len(vuln) + 1) \div 2) |-> int(vuln[2 * i - 1])]

\* any(l) of a list of numbers
any(l) == \E i \in 1..Len(l) : l[i] # 0

\* l[:2]
first2(l) == SubSeq(l, 1, IF Len(l) < 2 THEN Len(l) ELSE 2)

\* Tests.snyk(name, version): the first row whose link ends with the version is
\* read and the loop stops; a row without cells leaves vuln_n unbound, as does a
\* table without such a row.
snyk(version, page) ==
    IF page.error # None THEN Raised(page.error)
    ELSE IF ~page.div THEN Raised("AttributeError")
    ELSE IF page.trs = <<>> THEN Raised("IndexError")
    ELSE LET rows == Tail(page.trs)
             hits == {i \in 1..Len(rows) : endswith(rows[i].href, version)}
         IN  IF hits = {} THEN Raised("UnboundLocalError")
             ELSE LET row == rows[CHOOSE i \in hits : \A j \in hits : i <= j]
                      n   == vuln_n(row.text)
                  IN  IF ~row.td THEN Raised("UnboundLocalError")
                      ELSE IF \E i \in 1..Len(n) : n[i] < 0 THEN Raised("ValueError")
                      ELSE IF any(n) /\ page.detail # None THEN Raised(page.detail)
                      ELSE Returned(<<~any(first2(n))>> \o n)

\* The calls of a test: the test, its arguments, what the sources answer, and
\* the outcome once the test has run.
Md5Calls ==
    [test : {"md5"}, fname : {WhlName, GzName}, version : TestVersions, md5c : Digests,
     response : Responses, page : {None}, done : {FALSE}, out : {Returned(<<>>)}]

SnykCalls ==
    [test : {"snyk"}, fname : {None}, version : TestVersions, md5c : {None},
     response : {None}, page : Pages, done : {FALSE}, out : {Returned(<<>>)}]

\* The exceptions a test can raise.
TestErrors ==
    ({md5(c.fname, c.version, c.md5c, c.response).raised : c \in Md5Calls}
        \cup {snyk(c.version, c.page).raised : c \in SnykCalls}) \ {None}

\* The exceptions the test of this name can raise.
ErrorsOf(test) ==
    CASE test = "md5"  -> {md5(c.fname, c.version, c.md5c, c.response).raised : c \in Md5Calls}
                              \ {None}
      [] test = "snyk" -> {snyk(c.version, c.page).raised : c \in SnykCalls} \ {None}
      [] OTHER -> {}

-----------------------------------------------------------------------------
(* The inputs of a run. *)

\* The Namespace objects of the model. A list argument that was not given is <<>>.
Namespaces ==
    [package        : {<<"preqs">>},
     from_req       : {FALSE},
     no_cleanup     : BOOLEAN,
     exclude        : {<<>>, <<"packaging">>},
     platform       : {<<>>},
     python_version : {<<>>},
     unpack         : {FALSE}]
    \cup
    [package        : {<<ReqPath>>},
     from_req       : {TRUE},
     no_cleanup     : BOOLEAN,
     exclude        : {<<>>, <<"packaging">>},
     platform       : {<<"win_amd64">>},
     python_version : {<<"312">>},
     unpack         : {FALSE}]
    \cup
    [package        : {<<"preqs">>},
     from_req       : {FALSE},
     no_cleanup     : {FALSE},
     exclude        : {<<>>},
     platform       : {<<"win_amd64">>},
     python_version : {<<"312">>},
     unpack         : {FALSE}]
    \cup
    [package        : {<<ReqPath>>},
     from_req       : {TRUE},
     no_cleanup     : {FALSE},
     exclude        : {<<>>},
     platform       : {<<>>},
     python_version : {<<>>},
     unpack         : {FALSE}]
    \cup
    [package        : {<<ArchivePath>>},
     from_req       : {FALSE},
     no_cleanup     : {FALSE},
     exclude        : {<<>>},
     platform       : {<<>>},
     python_version : {<<>>},
     unpack         : {TRUE}]

\* What Download.get leaves in the workspace and reports as the target's path.
DownloadOutcomes ==
    {[files |-> {}, pkgpath |-> NoFile],
     [files |-> {TargetWhl}, pkgpath |-> TargetWhl],
     [files |-> {TargetWhl, DepWhl}, pkgpath |-> TargetWhl],
     [files |-> {TargetWhl, DepGz}, pkgpath |-> TargetWhl]}

\* What one test can return: a tuple that starts with the pass flag.
TestOutcomes(test) ==
    CASE test = "md5"  -> {<<TRUE>>, <<FALSE>>}
      [] test = "snyk" -> {<<TRUE, 0, 0, 0, 1>>, <<FALSE, 0, 1, 0, 0>>}
      [] OTHER -> {}

\* The lists of results of the configured tests, in configured order.
RECURSIVE TestRuns(_)
TestRuns(tests) ==
    IF tests = <<>> THEN {<<>>}
    ELSE {<<r>> \o rest : r \in TestOutcomes(Head(tests)), rest \in TestRuns(Tail(tests))}

\* The exit codes a called program returns.
ExitCodes == {0, 1, 2}

\* The program PPKUnPacker.run calls, and the refresh programs: the one named in
\* src/ppk/upack.py and the one config.json names for src/lib/upack.py.
Upack == "upack"

CstmgtPipRefresh == "cstmgt-pip-refresh"

PipRefreshProg == "pip-refresh"

\* No PPKUnPacker: the run is on the pack path.
NoUnpacker ==
    [mod |-> None, prog |-> None, path |-> {}, called |-> <<>>, returned |-> <<>>,
     started |-> <<>>, exits |-> <<>>, warned |-> FALSE]

\* The PPKUnPacker of an unpack run and its environment:
\*   mod      the module the class comes from
\*   prog     config.pip_refresh_prog: a name, the empty string or null
\*   path     the programs that can be found and executed
\*   called   the methods of the class called so far, in order
\*   returned the values they returned, in order (a method that raised: none)
\*   started  the programs started so far, in order
\*   exits    the exit codes of these programs, in order
\*   warned   whether refresh has printed its warning
Unpackers ==
    [mod : {"lib.upack"}, prog : {None, "", PipRefreshProg},
     path : SUBSET {Upack, PipRefreshProg},
     called : {<<>>}, returned : {<<>>}, started : {<<>>}, exits : {<<>>},
     warned : {FALSE}]
    \cup
    [mod : {"ppk.upack"}, prog : {None},
     path : SUBSET {Upack, CstmgtPipRefresh},
     called : {<<>>}, returned : {<<>>}, started : {<<>>}, exits : {<<>>},
     warned : {FALSE}]

\* No test has been called.
NoCall == [test |-> None]

\* No invocation runs beside this one.
NoInvocations == <<>>

\* The ledger is not in use.
NoLedger == [res |-> <<>>]

\* The earlier pipeline is not running.
LegacyInit ==
    [pc |-> "off", cls |-> "PPKPacker", exists |-> FALSE, calls |-> 0,
     appended |-> 0, returncode |-> 0, stderr |-> "", tmpdir |-> FALSE,
     excode |-> -1, exc |-> None,
     pkg |-> None, other |-> FALSE, reqarg |-> None, logged |-> FALSE, copied |-> None]

Init ==
    /\ args \in Namespaces
    /\ sysconfig = [tests |-> <<"md5", "snyk">>]
    /\ pc = "idle"
    /\ runs = 0
    /\ InitFields
    /\ fs = [d \in DirNames |-> NoDir]
    /\ desktop = {}
    /\ now = 0
    /\ ret = -1
    /\ excode = -1
    /\ exc = None
    /\ results = <<>>
    /\ executed = {}
    /\ archiver = [invoked |-> FALSE, pass |-> FALSE, files |-> {}, wsfiles |-> {}]
    /\ lg = LegacyInit
    /\ up \in (IF args.unpack THEN Unpackers ELSE {NoUnpacker})
    /\ vt = NoCall
    /\ cc = NoInvocations
    /\ ld = NoLedger

-----------------------------------------------------------------------------
(* PPKPacker.main, step by step. *)

Step(name, next) ==
    /\ pc = name
    /\ pc' = next
    /\ executed' = executed \cup {name}

Raise(name, e) ==
    /\ pc = name
    /\ pc' = "raised"
    /\ exc' = e
    /\ executed' = executed \cup {name}

\* p.main(): a call on a fresh object, or again on one whose main has returned.
main ==
    /\ ~args.unpack
    /\ pc \in {"idle", "returned"}
    /\ runs < MaxRuns
    /\ runs' = runs + 1
    /\ pc' = "_is_accessible"
    /\ executed' = {}
    /\ results' = <<>>
    /\ archiver' = [invoked |-> FALSE, pass |-> FALSE, files |-> {}, wsfiles |-> {}]
    /\ UNCHANGED <<args, sysconfig, fields, fs, desktop, now, ret, excode, exc, lg, up, vt, cc, ld>>

\* As _is_accessible, but the index is pinged after the workspace was made.
_is_accessible_after_makedirs ==
    /\ \E d \in DirNames :
          /\ ~fs[d].exists /\ \A e \in 1..(d - 1) : fs[e].exists
          /\ _tmpdir' = d
          /\ fs' = [fs EXCEPT ![d] = EmptyDir]
    /\ \E ping \in BOOLEAN :
          IF ping
          THEN Step("_is_accessible", "_set_package_name") /\ UNCHANGED exc
          ELSE Raise("_is_accessible", "RuntimeError")
    /\ UNCHANGED <<args, sysconfig, runs, _name, _namev, _ofname, _pass, _passflags,
                   _pkgpath, _pkg_version, _py_version, _abi, _platform, _p_key, _p_log,
                   desktop, now, ret, excode, results, archiver, lg, up, vt, cc, ld>>

_is_accessible ==
    /\ \E ping \in BOOLEAN :
          IF ping
          THEN Step("_is_accessible", "_set_package_name") /\ UNCHANGED exc
          ELSE Raise("_is_accessible", "RuntimeError")
    /\ UNCHANGED <<args, sysconfig, runs, fields, fs, desktop, now, ret, excode,
                   results, archiver, lg, up, vt, cc, ld>>

_set_package_name ==
    LET pkg   == args.package
        parts == re_split(pkg, 2)
    IN  /\ pc = "_set_package_name"
        /\ IF \E i \in 1..Len(pkg) : pkg[i] \in chars
           THEN IF Len(parts) = 3
                THEN /\ _name' = (IF args.from_req THEN join(parts[1])
                                  ELSE normalise_name(join(parts[1])))
                     /\ _namev' = join(parts[3])
                     /\ Step("_set_package_name", "_make_download_directory")
                     /\ UNCHANGED exc
                ELSE /\ Raise("_set_package_name", "ValueError")
                     /\ UNCHANGED <<_name, _namev>>
           ELSE /\ _name' = (IF args.from_req THEN join(pkg) ELSE normalise_name(join(pkg)))
                /\ Step("_set_package_name", "_make_download_directory")
                /\ UNCHANGED <<_namev, exc>>
        /\ UNCHANGED <<args, sysconfig, runs, _ofname, _pass, _passflags, _pkgpath,
                       _pkg_version, _py_version, _abi, _platform, _p_key, _p_log,
                       _tmpdir, fs, desktop, now, ret, excode, results, archiver, lg, up, vt, cc, ld>>

\* os.urandom(8).hex() names a directory that does not exist yet (all such names
\* are alike: the model takes the first) or, by chance, one that does; then
\* os.makedirs raises FileExistsError.
_make_download_directory ==
    /\ \E d \in DirNames :
          /\ \/ fs[d].exists
             \/ ~fs[d].exists /\ \A e \in 1..(d - 1) : fs[e].exists
          /\ IF fs[d].exists
             THEN /\ Raise("_make_download_directory", "FileExistsError")
                  /\ _tmpdir' = d
                  /\ UNCHANGED fs
             ELSE /\ Step("_make_download_directory", "_pip_download")
                  /\ _tmpdir' = d
                  /\ fs' = [fs EXCEPT ![d] = EmptyDir]
                  /\ UNCHANGED exc
    /\ UNCHANGED <<args, sysconfig, runs, _name, _namev, _ofname, _pass, _passflags,
                   _pkgpath, _pkg_version, _py_version, _abi, _platform, _p_key, _p_log,
                   desktop, now, ret, excode, results, archiver, lg, up, vt, cc, ld>>

\* dl.get() fills the workspace; main goes on only if the target was downloaded.
_pip_download ==
    /\ \E out \in DownloadOutcomes :
          /\ fs' = [fs EXCEPT ![_tmpdir].files = out.files]
          /\ _pkgpath' = out.pkgpath
          /\ IF out.pkgpath # NoFile
             THEN Step("_pip_download", "_get_package_version_number")
             ELSE Step("_pip_download", "return")
    /\ UNCHANGED <<args, sysconfig, runs, _name, _namev, _ofname, _pass, _passflags,
                   _pkg_version, _py_version, _abi, _platform, _p_key, _p_log, _tmpdir,
                   desktop, now, ret, excode, exc, results, archiver, lg, up, vt, cc, ld>>

\* The version and the tags are read off the downloaded target's file name.
_get_package_version_number ==
    LET base == _pkgpath
        f    == base.stem
    IN  /\ pc = "_get_package_version_number"
        /\ IF args.from_req
           THEN /\ Step("_get_package_version_number", "_build_archive_name")
                /\ UNCHANGED <<_pkg_version, _py_version, _abi, _platform, exc>>
           ELSE IF is_gz(base)
           THEN /\ Step("_get_package_version_number", "_build_archive_name")
                /\ _pkg_version' = f[Len(f)]
                /\ UNCHANGED <<_py_version, _abi, _platform, exc>>
           ELSE IF Len(f) >= 5
           THEN /\ Step("_get_package_version_number", "_build_archive_name")
                /\ _pkg_version' = f[2]
                /\ _py_version' = f[3]
                /\ _abi' = f[4]
                /\ _platform' = f[5]
                /\ UNCHANGED exc
           ELSE /\ Raise("_get_package_version_number", "ValueError")
                /\ UNCHANGED <<_pkg_version, _py_version, _abi, _platform>>
        /\ UNCHANGED <<args, sysconfig, runs, _name, _namev, _ofname, _pass, _passflags,
                       _pkgpath, _p_key, _p_log, _tmpdir, fs, desktop, now, ret, excode,
                       results, archiver, lg, up, vt, cc, ld>>

get_username == "user"

\* As ofname_req, but with the version of the downloaded target.
ofname_req_target_version(t, plat) ==
    <<"req", IF Len(_pkgpath.stem) >= 2 THEN _pkgpath.stem[2] ELSE "unset",
      strftime(t), get_username, plat>>

\* The f-string of requirements mode: the pieces between its hyphens.
ofname_req(t, plat) == <<"req", "0.0.0", strftime(t), get_username, plat>>

\* As ofname_pkg, but with the platform tag before the ABI tag.
ofname_pkg_platform_first(name) == <<name, _pkg_version, _py_version, _platform, _abi>>

\* The f-string of package mode: the pieces between its hyphens.
ofname_pkg(name) == <<name, _pkg_version, _py_version, _abi, _platform>>

\* if self._args.python_version: self._ofname += f'-{self._args.python_version[0]}'
requested_suffix(name) ==
    IF args.python_version # <<>> THEN Append(name, args.python_version[1]) ELSE name

\* The archive name, as the list of its hyphen-delimited fields. In requirements
\* mode it carries the time of the call, to the second: every call of main starts
\* with a ping of three packets, so the clock has ticked since it was last read.
_build_archive_name ==
    /\ Step("_build_archive_name", "_exclude_packages")
    /\ IF args.from_req
       THEN LET t    == now + 1
                plat == IF args.platform # <<>> THEN args.platform[1] ELSE _platform
            IN  /\ now' = t
                /\ _platform' = plat
                /\ _ofname' = requested_suffix(ofname_req(t, plat))
       ELSE /\ _ofname' = requested_suffix(ofname_pkg(_name))
            /\ UNCHANGED <<now, _platform>>
    /\ UNCHANGED <<args, sysconfig, runs, _name, _namev, _pass, _passflags, _pkgpath,
                   _pkg_version, _py_version, _abi, _p_key, _p_log, _tmpdir, fs, desktop,
                   ret, excode, exc, results, archiver, lg, up, vt, cc, ld>>

\* A file of the directory matched by the pattern '<excl>-*.whl'.
glob_excl(files, excl) ==
    {f \in files : f.ext = "whl" /\ f.suffix = "" /\ Len(f.stem) >= 2 /\ f.stem[1] = excl}

\* The loop of _exclude_packages: for each name the first file of the glob, which
\* may be any of the matching files, is unlinked. The sets of files it can leave.
RECURSIVE exclude_loop(_, _)
exclude_loop(files, exclude) ==
    IF exclude = <<>> THEN {files}
    ELSE LET file == glob_excl(files, Head(exclude))
         IN  IF file = {} THEN exclude_loop(files, Tail(exclude))
             ELSE UNION {exclude_loop(files \ {f}, Tail(exclude)) : f \in file}

_exclude_packages ==
    /\ Step("_exclude_packages", "_verify_wheels")
    /\ \E left \in exclude_loop(fs[_tmpdir].files, args.exclude) :
          fs' = [fs EXCEPT ![_tmpdir].files = left]
    /\ UNCHANGED <<args, sysconfig, runs, fields, desktop, now, ret, excode, exc,
                   results, archiver, lg, up, vt, cc, ld>>

\* The methods of the tests class that a configured name can be resolved to.
TestMethods == {"md5", "snyk"}

\* sysconfig['headers'].get(test): the log columns of a test.
headers(test) ==
    CASE test = "md5"  -> <<"md5">>
      [] test = "snyk" -> <<"vuln", "dv_c", "dv_h", "dv_m", "dv_l">>
      [] OTHER -> <<None>>

RECURSIVE testheader(_)
testheader(tests) ==
    IF tests = <<>> THEN <<>> ELSE headers(Head(tests)) \o testheader(Tail(tests))

\* Whether _verify_wheels can split the file name into a name and a version.
parses(f) ==
    CASE is_gz(f)      -> Len(f.stem) >= 1
      [] f.ext = "zip" -> Len(f.stem) = 2
      [] OTHER         -> Len(f.stem) >= 2

\* bool(x) of the values of one result tuple: the flag as it is, a count is
\* true when it is not zero.
truths(t) == [i \in 1..Len(t) |-> IF i = 1 THEN t[1] ELSE t[i] # 0]

\* list(itertools.chain(*v)), each value as all() reads it
RECURSIVE truth_chain(_)
truth_chain(v) == IF v = <<>> THEN <<>> ELSE truths(Head(v)) \o truth_chain(Tail(v))

\* v_[:2] of the earlier _log: the first two values of the flattened results.
legacy_passflags(v) == first2(truth_chain(v))

\* The flags taken as the earlier _log takes them, from the flattened values.
localpassflags_flattened(v) == legacy_passflags(v)

\* localpassflags = [i[0] for i in v]
localpassflags(v) == [i \in 1..Len(v) |-> v[i][1]]

\* list(itertools.chain(*v)), each value through str
RECURSIVE chain(_)
chain(v) == IF v = <<>> THEN <<>> ELSE strs(Head(v)) \o chain(Tail(v))

\* The line _log writes for one artifact.
log_row(k, v) ==
    [pkg    |-> k,
     vals   |-> chain(v),
     result |-> IF all(localpassflags(v)) THEN "pass" ELSE "fail"]

\* The flags _log appends to _passflags, in the order of the rows.
RECURSIVE extend_flags(_, _)
extend_flags(pkgs, res) ==
    IF pkgs = <<>> THEN <<>>
    ELSE localpassflags(res[Head(pkgs)]) \o extend_flags(Tail(pkgs), res)

\* What _log writes: the header, then one row for each key of the results.
_log(pkgs, res) ==
    [header  |-> <<"datetime", "host", "user", "package">>
                    \o testheader(sysconfig.tests) \o <<"result">>,
     rows    |-> [i \in 1..Len(pkgs) |-> log_row(pkgs[i], res[pkgs[i]])],
     summary |-> ""]

\* Every configured test on every file of the workspace, then the log, then the
\* overall flag over all the flags gathered in _passflags. A test that raises
\* ends the step with its exception, as does a configured name that is no
\* method of the tests class, at its first dispatch, or, with no file to test,
\* when _log joins the header columns and finds none for it.
_verify_wheels ==
    LET pkgs == glob(_tmpdir)
        S    == {pkgs[i] : i \in 1..Len(pkgs)}
    IN  /\ pc = "_verify_wheels"
        /\ IF \E f \in S : ~parses(f)
           THEN /\ Raise("_verify_wheels", "ValueError")
                /\ UNCHANGED <<_pass, _passflags, _p_key, _p_log, fs, results>>
           ELSE IF S # {} /\ \E i \in 1..Len(sysconfig.tests) :
                                sysconfig.tests[i] \notin TestMethods
           THEN /\ Raise("_verify_wheels", "AttributeError")
                /\ UNCHANGED <<_pass, _passflags, _p_key, _p_log, fs, results>>
           ELSE IF \E i \in 1..Len(sysconfig.tests) : headers(sysconfig.tests[i]) = <<None>>
           THEN /\ Raise("_verify_wheels", "TypeError")
                /\ UNCHANGED <<_pass, _passflags, _p_key, _p_log, fs, results>>
           ELSE \/ /\ S # {}
                   /\ \E i \in 1..Len(sysconfig.tests) :
                         \E e \in TestErrors \cap ErrorsOf(sysconfig.tests[i]) :
                            Raise("_verify_wheels", e)
                   /\ UNCHANGED <<_pass, _passflags, _p_key, _p_log, fs, results>>
                \/ \E res \in [S -> TestRuns(sysconfig.tests)] :
                      /\ Step("_verify_wheels", "_log_summary")
                      /\ results' = res
                      /\ _p_key' = [dir |-> _tmpdir, name |-> KeyName(_ofname)]
                      /\ _p_log' = [dir |-> _tmpdir, name |-> LogName(_ofname)]
                      /\ fs' = [fs EXCEPT ![_tmpdir].files = @ \cup {LogName(_ofname)},
                                          ![_tmpdir].log = _log(pkgs, res)]
                      /\ _passflags' = _passflags \o extend_flags(pkgs, res)
                      /\ _pass' = all(_passflags')
                      /\ UNCHANGED exc
        /\ UNCHANGED <<args, sysconfig, runs, _name, _namev, _ofname, _pkgpath,
                       _pkg_version, _py_version, _abi, _platform, _tmpdir, desktop,
                       now, ret, excode, archiver, lg, up, vt, cc, ld>>

\* The text _log_summary appends to the log.
summary_flag == IF _pass THEN "PASS" ELSE "FAIL"

\* As _log_summary, but the Result line is not written before the key.
_log_summary_no_result ==
    /\ Step("_log_summary", "_log_summary_key")
    /\ UNCHANGED <<args, sysconfig, runs, fields, fs, desktop, now, ret, excode, exc,
                   results, archiver, lg, up, vt, cc, ld>>

\* _log_summary, first half: the Result line is appended to the log.
_log_summary ==
    /\ Step("_log_summary", "_log_summary_key")
    /\ fs' = [fs EXCEPT ![_p_log.dir].files = @ \cup {_p_log.name},
                        ![_p_log.dir].log.summary = summary_flag]
    /\ UNCHANGED <<args, sysconfig, runs, fields, desktop, now, ret, excode, exc,
                   results, archiver, lg, up, vt, cc, ld>>

\* _log_summary, second half: the digest of the log file is written to the key.
_log_summary_key ==
    /\ Step("_log_summary_key", "_copy_requirements_file")
    /\ fs' = [fs EXCEPT ![_p_key.dir].files = @ \cup {_p_key.name},
                        ![_p_key.dir].key = checksum_sha256(fs[_p_log.dir].log)]
    /\ UNCHANGED <<args, sysconfig, runs, fields, desktop, now, ret, excode, exc,
                   results, archiver, lg, up, vt, cc, ld>>

_copy_requirements_file ==
    /\ Step("_copy_requirements_file", "_create_archive")
    /\ IF args.from_req
       THEN fs' = [fs EXCEPT ![_tmpdir].files = @ \cup {ReqCopyName(_ofname)}]
       ELSE UNCHANGED fs
    /\ UNCHANGED <<args, sysconfig, runs, fields, desktop, now, ret, excode, exc,
                   results, archiver, lg, up, vt, cc, ld>>

\* 7z a <opath> <files>: the files are added to the archive at opath, which is
\* created if it does not exist.
sevenzip_add(archives, fname, hash_, files) ==
    LET old == {a \in archives : a.name = fname}
    IN  (archives \ old)
          \cup {[name  |-> fname,
                 pw    |-> hash_,
                 files |-> files \cup UNION {a.files : a \in old}]}

\* As unlink_archive, but the archive that exists is left in place.
unlink_nothing(archives, fname) == archives

\* os.path.exists(opath) -> os.unlink(opath)
unlink_archive(archives, fname) == {a \in archives : a.name # fname}

_create_archive ==
    LET files == glob(_tmpdir)
        gen   == _generate_archive_filename(_ofname)
        S     == {files[i] : i \in 1..Len(files)}
    IN  /\ pc = "_create_archive"
        /\ IF _pass
           THEN \E returncode \in {0, 2} :
                   /\ archiver' = [invoked |-> TRUE, pass |-> _pass, files |-> S,
                                   wsfiles |-> fs[_tmpdir].files]
                   /\ IF returncode = 0
                      THEN /\ Step("_create_archive", "_cleanup")
                           /\ desktop' = sevenzip_add(unlink_archive(desktop, gen.fname),
                                                      gen.fname, gen.hash, S)
                           /\ UNCHANGED exc
                      ELSE /\ Raise("_create_archive", "RuntimeError")
                           /\ desktop' = unlink_archive(desktop, gen.fname)
           ELSE /\ Step("_create_archive", "_cleanup")
                /\ UNCHANGED <<desktop, exc, archiver>>
        /\ UNCHANGED <<args, sysconfig, runs, fields, fs, now, ret, excode, results, lg, up, vt, cc, ld>>

\* As _cleanup, but without looking at the overall flag.
_cleanup_any_result(force) ==
    IF ~args.no_cleanup \/ force
    THEN IF fs[_tmpdir].exists THEN [fs EXCEPT ![_tmpdir] = NoDir] ELSE fs
    ELSE fs

\* The directories after _cleanup(force).
_cleanup(force) ==
    IF (~args.no_cleanup /\ _pass) \/ force
    THEN IF fs[_tmpdir].exists THEN [fs EXCEPT ![_tmpdir] = NoDir] ELSE fs
    ELSE fs

cleanup ==
    /\ Step("_cleanup", "_print_summary")
    /\ fs' = _cleanup(FALSE)
    /\ UNCHANGED <<args, sysconfig, runs, fields, desktop, now, ret, excode, exc,
                   results, archiver, lg, up, vt, cc, ld>>

_print_summary ==
    /\ Step("_print_summary", "return")
    /\ UNCHANGED <<args, sysconfig, runs, fields, fs, desktop, now, ret, excode, exc,
                   results, archiver, lg, up, vt, cc, ld>>

\* return 0 if self._pass else 1
main_return ==
    /\ pc = "return"
    /\ pc' = "returned"
    /\ ret' = (IF _pass THEN 0 ELSE 1)
    /\ UNCHANGED <<args, sysconfig, runs, fields, fs, desktop, now, excode, exc,
                   ghosts, lg, up, vt, cc, ld>>

\* What self._subprocess_call(cmd) can do: Popen raises when the program is not
\* there or cannot be executed, otherwise the program runs and its code is returned.
_subprocess_call(cmd) ==
    IF cmd \in up.path
    THEN {[raised |-> None, excode |-> c, started |-> TRUE] : c \in ExitCodes}
            \cup {[raised |-> "OSError", excode |-> -1, started |-> FALSE]}
    ELSE {[raised |-> "FileNotFoundError", excode |-> -1, started |-> FALSE]}

\* shutil.which(prog): the program if it is found, None if it is not; a name that
\* is no string (a null in config.json) raises TypeError.
which(prog) ==
    IF prog = None THEN [raised |-> "TypeError", found |-> FALSE]
    ELSE [raised |-> None, found |-> prog \in up.path]

\* PPKUnPacker.run, called by Main.run on the unpack path, and the test of its
\* code that follows the call.
run ==
    /\ args.unpack
    /\ pc = "idle"
    /\ \E o \in _subprocess_call(Upack) :
          /\ up' = [up EXCEPT !.called = Append(@, "run"),
                              !.returned = IF o.raised = None THEN Append(@, o.excode) ELSE @,
                              !.started = IF o.started THEN Append(@, Upack) ELSE @,
                              !.exits = IF o.started THEN Append(@, o.excode) ELSE @]
          /\ IF o.raised # None
             THEN pc' = "raised" /\ exc' = o.raised /\ UNCHANGED ret
             ELSE /\ pc' = (IF o.excode = 0 THEN "refresh" ELSE "returned")
                  /\ ret' = o.excode
                  /\ UNCHANGED exc
    /\ UNCHANGED <<args, sysconfig, runs, fields, fs, desktop, now, excode, ghosts, lg, vt, cc, ld>>

\* What PPKUnPacker.refresh can do, for each of the two modules.
refresh_outcomes ==
    IF up.mod = "lib.upack"
    THEN LET w == which(up.prog)
         IN  IF w.raised # None
             THEN {[raised |-> w.raised, ret |-> -1, started |-> <<>>, exits |-> <<>>,
                    warned |-> FALSE]}
             ELSE IF w.found
             THEN {[raised  |-> None,
                    ret     |-> IF o.raised # None THEN 1 ELSE o.excode,
                    started |-> IF o.started THEN <<up.prog>> ELSE <<>>,
                    exits   |-> IF o.started THEN <<o.excode>> ELSE <<>>,
                    warned  |-> FALSE] : o \in _subprocess_call(up.prog)}
             ELSE {[raised |-> None, ret |-> 1, started |-> <<>>, exits |-> <<>>,
                    warned |-> TRUE]}
    ELSE {[raised  |-> o.raised,
           ret     |-> o.excode,
           started |-> IF o.started THEN <<CstmgtPipRefresh>> ELSE <<>>,
           exits   |-> IF o.started THEN <<o.excode>> ELSE <<>>,
           warned  |-> FALSE] : o \in _subprocess_call(CstmgtPipRefresh)}

\* PPKUnPacker.refresh, called by Main.run when run has returned 0.
refresh ==
    /\ pc = "refresh"
    /\ \E o \in refresh_outcomes :
          /\ up' = [up EXCEPT !.called = Append(@, "refresh"),
                              !.returned = IF o.raised = None THEN Append(@, o.ret) ELSE @,
                              !.started = @ \o o.started,
                              !.exits = @ \o o.exits,
                              !.warned = o.warned]
          /\ IF o.raised # None
             THEN pc' = "raised" /\ exc' = o.raised /\ UNCHANGED ret
             ELSE pc' = "returned" /\ ret' = o.ret /\ UNCHANGED exc
    /\ UNCHANGED <<args, sysconfig, runs, fields, fs, desktop, now, excode, ghosts, lg, vt, cc, ld>>

\* Main.run: it makes one PPKPacker and calls main once, or takes the unpack
\* path; the value it got is the exit code, an exception makes it 73.
Main_run ==
    /\ args.unpack \/ runs = 1
    /\ pc \in {"returned", "raised"}
    /\ pc' = "exited"
    /\ excode' = (IF pc = "raised" THEN 73 ELSE ret)
    /\ UNCHANGED <<args, sysconfig, runs, fields, fs, desktop, now, ret, exc, ghosts, lg, up, vt, cc, ld>>

Next ==
    \/ main
    \/ _is_accessible
    \/ _set_package_name
    \/ _make_download_directory
    \/ _pip_download
    \/ _get_package_version_number
    \/ _build_archive_name
    \/ _exclude_packages
    \/ _verify_wheels
    \/ _log_summary
    \/ _log_summary_key
    \/ _copy_requirements_file
    \/ _create_archive
    \/ cleanup
    \/ _print_summary
    \/ main_return
    \/ run
    \/ refresh
    \/ Main_run

Spec == Init /\ [][Next]_vars

-----------------------------------------------------------------------------
(* The claims about PPKPacker.main. *)

\* Every flag of every test of every artifact verified in this invocation is true.
AllPassNow ==
    \A f \in DOMAIN results : \A i \in 1..Len(results[f]) : results[f][i][1]

\* The download of this invocation found the target.
Found == _pkgpath # NoFile

\* The steps of main that follow the download.
LaterSteps ==
    {"_get_package_version_number", "_build_archive_name", "_exclude_packages",
     "_verify_wheels", "_log_summary", "_log_summary_key", "_copy_requirements_file",
     "_create_archive", "_cleanup", "_print_summary"}

\* C1: when the download found the target, main returns 0 if and only if every
\* test of every artifact of the workspace reported a true flag, and with any
\* flag false the archiver is not invoked.
C1_ReturnsZeroIffAllPass ==
    (pc = "returned" /\ Found) =>
        /\ (ret = 0 <=> AllPassNow)
        /\ (~AllPassNow => (ret = 1 /\ ~archiver.invoked))

\* C2: whenever the archiver is invoked the overall flag is true and the list it
\* gets is the workspace as it then is: the verified artifacts, which all passed,
\* the log, the key and, in requirements mode only, the copy of the requirements
\* file; and a run that returns 1 has not invoked the archiver.
C2_ArchiverGetsPassingWorkspace ==
    /\ archiver.invoked =>
          /\ archiver.pass
          /\ archiver.files = archiver.wsfiles
          /\ archiver.files =
                DOMAIN results \cup {LogName(_ofname), KeyName(_ofname)}
                    \cup (IF args.from_req THEN {ReqCopyName(_ofname)} ELSE {})
          /\ AllPassNow
    /\ (pc = "returned" /\ ret = 1) => ~archiver.invoked

C2_Witness ==
    /\ pc = "_cleanup"
    /\ archiver.invoked
    /\ args.from_req
    /\ Cardinality(DOMAIN results) = 2
    /\ ReqCopyName(_ofname) \in archiver.files

\* C3: after the exclusion step no file of the workspace has a name that starts
\* with a name of the exclude list, whatever its kind.
C3_NoExcludedFileRemains ==
    "_exclude_packages" \in executed =>
        \A i \in 1..Len(args.exclude) : \A f \in fs[_tmpdir].files :
            ~(Len(f.stem) >= 1 /\ f.stem[1] = args.exclude[i])

\* C4: an invocation whose download did not find the target executes none of the
\* later steps and returns 1, also on an object that has completed a run before.
C4_NotFoundReturnsOne ==
    (pc = "returned" /\ ~Found) => (ret = 1 /\ executed \cap LaterSteps = {})

\* C5: the return code, the Result line of the log and whether the archiver runs
\* are determined by the results gathered in this invocation alone.
C5_OutcomeFromThisInvocationOnly ==
    (pc = "returned" /\ "_verify_wheels" \in executed) =>
        /\ archiver.invoked <=> AllPassNow
        /\ fs[_p_log.dir].exists => (fs[_p_log.dir].log.summary = "PASS" <=> AllPassNow)
        /\ ret = (IF AllPassNow THEN 0 ELSE 1)

\* The log of directory d is complete: the header, one row for each artifact of
\* the directory, and the Result line.
Artifacts(d) == {f \in fs[d].files : f.ext \in {"whl", "tar.gz", "zip"}}

Finalized(d) ==
    /\ \E f \in fs[d].files : f.ext = "log"
    /\ fs[d].log.header # <<>>
    /\ {fs[d].log.rows[i].pkg : i \in 1..Len(fs[d].log.rows)} = Artifacts(d)
    /\ Len(fs[d].log.rows) = Cardinality(Artifacts(d))
    /\ fs[d].log.summary \in {"PASS", "FAIL"}

HasKey(d) == fs[d].exists /\ \E f \in fs[d].files : f.ext = "key"

\* C6: in every state in which a key file exists the log beside it is complete and
\* the key is the digest of the log as it stands, and no step changes a log whose
\* key has been written.
C6_KeyOnlyOverFinalLog ==
    [][\A d \in DirNames :
          /\ HasKey(d)' =>
                /\ Finalized(d)'
                /\ fs'[d].key = checksum_sha256(fs'[d].log)
          /\ (HasKey(d) /\ fs'[d].exists) => fs'[d].log = fs[d].log]_vars

C6_Witness ==
    /\ pc = "_copy_requirements_file"
    /\ HasKey(_tmpdir)
    /\ Len(fs[_tmpdir].log.rows) = 2
    /\ fs[_tmpdir].log.summary = "FAIL"

\* C7: when main returns after a download that found the target, the workspace is
\* gone if and only if the result is pass and no-cleanup was not requested; after
\* a failed run it still holds the verified artifacts, the log and the key.
C7_WorkspaceDeletedIffPass ==
    (pc = "returned" /\ Found) =>
        /\ ~fs[_tmpdir].exists <=> (ret = 0 /\ ~args.no_cleanup)
        /\ ret = 1 =>
              /\ fs[_tmpdir].exists
              /\ DOMAIN results \cup {LogName(_ofname), KeyName(_ofname)}
                    \subseteq fs[_tmpdir].files

C7_Witness ==
    /\ pc = "returned"
    /\ Found
    /\ ret = 0
    /\ ~args.no_cleanup
    /\ ~fs[_tmpdir].exists
    /\ Cardinality(DOMAIN results) = 2

\* C8: once the download has begun, a run that ends early, by the target not
\* being found or by an exception, has deleted its workspace when the process
\* exits.
C8_EarlyExitDeletesWorkspace ==
    (pc = "exited" /\ "_pip_download" \in executed /\ (excode = 73 \/ ~Found))
        => ~fs[_tmpdir].exists

\* The archives at the destination under the name of this invocation's target.
OwnArchives == {a \in desktop : a.name = _generate_archive_filename(_ofname).fname}

\* C17 as stated: whenever main returns 0 after the archiver ran, also for the
\* second time for the same target, the destination holds exactly one archive,
\* made of the files of this invocation alone.
C17_OneArchiveAfterTwoRuns ==
    (pc = "returned" /\ ret = 0 /\ archiver.invoked) =>
        /\ Cardinality(desktop) = 1
        /\ \A a \in desktop : a.files = archiver.files

\* C17, amended: in package mode, whenever main returns 0 after the archiver
\* ran, also for the second time for the same target, the destination holds
\* exactly one archive under the target's name, made of the files of this
\* invocation alone: the archive of an earlier run was deleted, not added to.
C17_PackageArchiveReplaced ==
    (pc = "returned" /\ ret = 0 /\ archiver.invoked /\ ~args.from_req) =>
        /\ Cardinality(desktop) = 1
        /\ Cardinality(OwnArchives) = 1
        /\ \A a \in OwnArchives : a.files = archiver.files

\* Two passing runs in package mode, the workspace of each still there, the
\* first with a dependency the second did not download.
C17_Witness ==
    /\ pc = "returned"
    /\ runs = 2
    /\ ret = 0
    /\ archiver.invoked
    /\ ~args.from_req
    /\ \A d \in 1..2 : fs[d].exists /\ fs[d].log.summary = "PASS"
    /\ DepWhl \in fs[1].files
    /\ DepWhl \notin fs[2].files

RECURSIVE hyphenated(_)
hyphenated(ofname) ==
    IF Len(ofname) <= 1 THEN ofname
    ELSE <<Head(ofname), "-">> \o hyphenated(Tail(ofname))

\* name.split('-') of _parse_archive_name, on such a string.
RECURSIVE split(_)
split(str) ==
    IF str = <<>> THEN <<"">>
    ELSE IF Head(str) = "-" THEN <<"">> \o split(Tail(str))
    ELSE LET rest == split(Tail(str))
         IN  <<Head(str) \o Head(rest)>> \o Tail(rest)

-----------------------------------------------------------------------------
(* The download of the earlier pipeline: PPKPacker._pip_download of            *)
(* src/lib/pack.py and Download._download of src/lib/pip.py, each with its     *)
(* _fix_missing. The state is the record lg:                                   *)
(*   cls         the class whose method runs                                   *)
(*   exists      os.path.exists(args.package[0]): a requirements file exists,  *)
(*               no file has the name of a package                             *)
(*   calls       how many times pip has been run                               *)
(*   appended    how many '--no-binary=' lines were appended to the file       *)
(*   returncode  the exit code of the last pip, stderr what it wrote           *)
(*   tmpdir      whether the download directory exists                         *)
(*   pkg         self._pkg, set by _parse_args                                 *)
(*   other       whether a file exists under the path self._pkg, where that is *)
(*               not the path the caller passed                                *)
(*   reqarg      the path given to pip after -r                                *)
(*   logged      whether the verification and the log are done                 *)
(*   copied      the path of the file _copy_requirements_file has copied       *)

\* pip is run at most this many times in the model.
MaxCalls == 4

\* What pip can write to stderr when it fails: the message the pattern of
\* _parse_err__no_matching_dist matches, the words 'no matching distribution' in
\* another sentence, or another error.
PipErrors == {"ERROR: No matching distribution found for pkg",
              "no matching distribution", "other"}

\* b'no matching distribution' in stderr.lower()
no_matching_distribution(stderr) ==
    stderr \in {"ERROR: No matching distribution found for pkg", "no matching distribution"}

\* _parse_err__no_matching_dist: the package the message names, or None.
_parse_err__no_matching_dist(msg) ==
    IF msg = "ERROR: No matching distribution found for pkg" THEN "pkg" ELSE None

\* The test of _fix_missing before it changes the file: PPKPacker looks for the
\* path, Download at the from_req argument.
fix_applies(pkg) ==
    IF lg.cls = "PPKPacker" THEN pkg # None /\ lg.exists
    ELSE pkg # None /\ args.from_req

\* A requirements file with a hyphen in its name, as the tokens of the path.
ReqDevPath == <<"requirements", "-", "dev.txt">>

\* The Namespaces of the earlier pipeline: those of the model without exclude
\* list, and one with this requirements file.
LegacyNamespaces ==
    {n \in Namespaces : n.exclude = <<>> /\ ~n.unpack}
    \cup
    [package        : {ReqDevPath},
     from_req       : {TRUE},
     no_cleanup     : {FALSE},
     exclude        : {<<>>},
     platform       : {<<>>},
     python_version : {<<>>},
     unpack         : {FALSE}]

\* args.package[0].replace('-', '_'), on the tokens of the text
str_replace(s) == [i \in 1..Len(s) |-> IF s[i] = "-" THEN "_" ELSE s[i]]

\* self._pkg after _parse_args
_parse_args(package) ==
    LET pkg == str_replace(package)
    IN  IF \E i \in 1..Len(pkg) : pkg[i] \in chars
        THEN join(re_split(pkg, 1)[1])
        ELSE join(pkg)

InitLegacy ==
    /\ args \in LegacyNamespaces
    /\ up = NoUnpacker
    /\ vt = NoCall
    /\ cc = NoInvocations
    /\ ld = NoLedger
    /\ sysconfig = [tests |-> <<"md5", "snyk">>]
    /\ pc = "off"
    /\ runs = 0
    /\ InitFields
    /\ fs = [d \in DirNames |-> NoDir]
    /\ desktop = {}
    /\ now = 0
    /\ ret = -1
    /\ excode = -1
    /\ exc = None
    /\ results = <<>>
    /\ executed = {}
    /\ archiver = [invoked |-> FALSE, pass |-> FALSE, files |-> {}, wsfiles |-> {}]
    /\ \E cls \in {"PPKPacker", "Download"} :
          \E other \in (IF _parse_args(args.package) # join(args.package)
                         THEN BOOLEAN ELSE {FALSE}) :
             lg = [LegacyInit EXCEPT !.pc = IF cls = "PPKPacker" THEN "_parse_args"
                                            ELSE "_make_download_directory",
                                     !.cls = cls,
                                     !.exists = args.from_req,
                                     !.other = other]

main_vars == <<args, sysconfig, pc, runs, fields, fs, desktop, now, ret, excode, exc, ghosts,
               up, vt, cc, ld>>

legacy_parse_args ==
    /\ lg.pc = "_parse_args"
    /\ lg' = [lg EXCEPT !.pc = "_make_download_directory", !.pkg = _parse_args(args.package)]
    /\ UNCHANGED main_vars

legacy_make_download_directory ==
    /\ lg.pc = "_make_download_directory"
    /\ lg' = [lg EXCEPT !.pc = "_pip_download", !.tmpdir = TRUE]
    /\ UNCHANGED main_vars

\* sp.Popen(cmd, stderr=sp.PIPE) and proc.communicate(): pip runs once.
legacy_pip_download ==
    /\ lg.pc = "_pip_download"
    /\ lg.calls < MaxCalls
    /\ \E err \in PipErrors \cup {""} :
          lg' = [lg EXCEPT !.calls = @ + 1,
                           !.reqarg = IF args.from_req THEN join(args.package) ELSE None,
                           !.stderr = err,
                           !.returncode = IF err = "" THEN 0 ELSE 1,
                           !.pc = IF err = "" THEN "downloaded"
                                  ELSE IF no_matching_distribution(err) THEN "_fix_missing"
                                  ELSE "report_and_exit"]
    /\ UNCHANGED main_vars

\* _fix_missing: the line is appended and the download called again, or nothing
\* is done and the caller goes on after its 'if proc.returncode' block.
legacy_fix_missing ==
    /\ lg.pc = "_fix_missing"
    /\ IF fix_applies(_parse_err__no_matching_dist(lg.stderr))
       THEN lg' = [lg EXCEPT !.appended = @ + 1, !.pc = "_pip_download"]
       ELSE lg' = [lg EXCEPT !.pc = "downloaded"]
    /\ UNCHANGED main_vars

\* The directory after the earlier _cleanup(force).
legacy_cleanup(force, passed) ==
    IF (~args.no_cleanup /\ passed) \/ force THEN FALSE ELSE lg.tmpdir

\* report_and_exit: PPKPacker cleans up and exits with 1; Download has no
\* _cleanup method, so the call raises AttributeError.
legacy_report_and_exit ==
    /\ lg.pc = "report_and_exit"
    /\ IF lg.cls = "PPKPacker"
       THEN lg' = [lg EXCEPT !.tmpdir = legacy_cleanup(TRUE, FALSE), !.excode = 1,
                             !.pc = "exited"]
       ELSE lg' = [lg EXCEPT !.exc = "AttributeError", !.pc = "raised"]
    /\ UNCHANGED main_vars

\* Every frame of the download returns: main goes on to derive the version
\* (PPKPacker), get goes on to _find (Download).
legacy_continue ==
    /\ lg.pc = "downloaded"
    /\ lg' = [lg EXCEPT !.pc = IF lg.cls = "PPKPacker" THEN "_get_package_version_number"
                               ELSE "_find"]
    /\ UNCHANGED main_vars

\* The steps of the earlier main between the download and the copy of the
\* requirements file, taken as one: the version is derived, the name of the
\* output files built, the files are tested and the log is written. None of
\* them assigns self._pkg or touches the requirements file.
legacy_verify_and_log ==
    /\ lg.pc = "_get_package_version_number"
    /\ lg' = [lg EXCEPT !.pc = "_copy_requirements_file", !.logged = TRUE]
    /\ UNCHANGED main_vars

\* shutil.copy(src=self._pkg, dst=...): the file at the path self._pkg is
\* copied; FileNotFoundError if there is none.
legacy_copy_requirements_file ==
    /\ lg.pc = "_copy_requirements_file"
    /\ IF ~args.from_req
       THEN lg' = [lg EXCEPT !.pc = "_create_archive"]
       ELSE IF lg.pkg = join(args.package) \/ lg.other
       THEN lg' = [lg EXCEPT !.pc = "_create_archive", !.copied = lg.pkg]
       ELSE lg' = [lg EXCEPT !.pc = "raised", !.exc = "FileNotFoundError"]
    /\ UNCHANGED main_vars

NextLegacy ==
    \/ legacy_parse_args
    \/ legacy_make_download_directory
    \/ legacy_pip_download
    \/ legacy_fix_missing
    \/ legacy_report_and_exit
    \/ legacy_continue
    \/ legacy_verify_and_log
    \/ legacy_copy_requirements_file

SpecLegacy == InitLegacy /\ [][NextLegacy]_vars

\* C9: the download tool is run at most twice in one run, and the requirements
\* file gets at most one '--no-binary=' line.
C9_AtMostOneRetry == lg.calls <= 2 /\ lg.appended <= 1

\* C10: when the last pip exited non-zero the pipeline does not go on to the
\* version derivation or the search of the target, and the run has ended with the
\* workspace deleted and exit code 1.
C10_FailedDownloadExitsWithOne ==
    /\ lg.pc \in {"downloaded", "_get_package_version_number", "_find"} => lg.returncode = 0
    /\ (lg.pc \in {"exited", "raised"} /\ lg.returncode # 0) =>
            (lg.excode = 1 /\ ~lg.tmpdir)

-----------------------------------------------------------------------------
(* The tests, called one at a time on every answer of the sources. *)

tests_vars == <<args, sysconfig, pc, runs, fields, fs, desktop, now, ret, excode, exc, ghosts,
                lg, up, cc, ld>>

InitTests ==
    /\ args \in {n \in Namespaces : ~n.unpack /\ ~n.from_req /\ ~n.no_cleanup /\ n.exclude = <<>>}
    /\ sysconfig = [tests |-> <<"md5", "snyk">>]
    /\ pc = "off"
    /\ runs = 0
    /\ InitFields
    /\ fs = [d \in DirNames |-> NoDir]
    /\ desktop = {}
    /\ now = 0
    /\ ret = -1
    /\ excode = -1
    /\ exc = None
    /\ results = <<>>
    /\ executed = {}
    /\ archiver = [invoked |-> FALSE, pass |-> FALSE, files |-> {}, wsfiles |-> {}]
    /\ lg = LegacyInit
    /\ up = NoUnpacker
    /\ cc = NoInvocations
    /\ ld = NoLedger
    /\ vt \in Md5Calls \cup SnykCalls

Tests_md5 ==
    /\ vt.test = "md5"
    /\ ~vt.done
    /\ vt' = [vt EXCEPT !.done = TRUE,
                        !.out = md5(vt.fname, vt.version, vt.md5c, vt.response)]
    /\ UNCHANGED tests_vars

Tests_snyk ==
    /\ vt.test = "snyk"
    /\ ~vt.done
    /\ vt' = [vt EXCEPT !.done = TRUE, !.out = snyk(vt.version, vt.page)]
    /\ UNCHANGED tests_vars

NextTests ==
    \/ Tests_md5
    \/ Tests_snyk

SpecTests == InitTests /\ [][NextTests]_vars

\* The index has answered and lists the file under the version with this digest.
Published(r, version, fname, digest) ==
    /\ r.error = None
    /\ r.status = 200
    /\ version \in DOMAIN r.releases
    /\ \E i \in 1..Len(r.releases[version]) :
          /\ r.releases[version][i].filename = fname
          /\ r.releases[version][i].md5 = digest

\* The index has answered and has no record of the file under the version: the
\* release lacks the file, or the package lacks the release, or the index lacks
\* the package.
NoRecord(r, version, fname) ==
    /\ r.error = None
    /\ \A d \in Digests : ~Published(r, version, fname, d)

\* C14: the checksum test returns a true flag if and only if the digest of the
\* file is the digest the index publishes for that file name under that version,
\* and when the index has no such record it returns a false flag and raises
\* nothing.
C14_ChecksumPassIffPublishedDigest ==
    (vt.test = "md5" /\ vt.done) =>
        /\ (vt.out.raised = None /\ vt.out.ret = <<TRUE>>)
              <=> Published(vt.response, vt.version, vt.fname, vt.md5c)
        /\ NoRecord(vt.response, vt.version, vt.fname)
              => (vt.out.raised = None /\ vt.out.ret = <<FALSE>>)

\* The rows of the page for exactly this version.
ExactRows(page, version) ==
    {i \in 2..Len(page.trs) : page.trs[i].href = href(version)}

\* C15: when the vulnerability test returns, the table has a row for exactly the
\* queried version, the counts returned are the counts of that row, and the flag
\* is true if and only if its critical and high counts are zero.
C15_CountsOfExactVersion ==
    (vt.test = "snyk" /\ vt.done /\ vt.out.raised = None) =>
        \E i \in ExactRows(vt.page, vt.version) :
            LET n == vuln_n(vt.page.trs[i].text)
            IN  /\ Tail(vt.out.ret) = n
                /\ vt.out.ret[1] <=> ~any(first2(n))

\* C16: the vulnerability test returns a true flag only when the row of the
\* queried version gave a critical count of 0 and a high count of 0; without an
\* answer, without the table, without a row for the version or with an empty
\* cell in it, the test raises.
C16_NoPassWithoutCounts ==
    (vt.test = "snyk" /\ vt.done) =>
        /\ (vt.out.raised = None /\ vt.out.ret[1]) =>
              \E i \in ExactRows(vt.page, vt.version) :
                  LET n == vuln_n(vt.page.trs[i].text)
                  IN  Len(n) >= 2 /\ n[1] = 0 /\ n[2] = 0
        /\ (\/ vt.page.error # None
            \/ ~vt.page.div
            \/ ExactRows(vt.page, vt.version) = {}
            \/ \E i \in ExactRows(vt.page, vt.version) :
                  ~vt.page.trs[i].td \/ vt.page.trs[i].text = <<>>)
              => vt.out.raised # None

-----------------------------------------------------------------------------
(* The claims about Main.run. *)

\* The exceptions with which the checksum test answers an index that has no
\* record of the file.
MissingRecordErrors ==
    {md5(c.fname, c.version, c.md5c, c.response).raised :
        c \in {x \in Md5Calls : NoRecord(x.response, x.version, x.fname)}} \ {None}

\* C11: the process exits with 73 exactly when an exception escaped; on the pack
\* path it otherwise exits with the value of main, 0 when all passed and 1 when
\* the target was not downloaded or a test failed; and a verification failure,
\* which a missing index record is, does not end the process with 73.
C11_ExitCodeTellsFailureFromCrash ==
    pc = "exited" =>
        /\ excode = 73 <=> exc # None
        /\ (~args.unpack /\ exc = None) =>
              /\ excode = ret
              /\ excode \in {0, 1}
              /\ excode = 0 <=> (Found /\ AllPassNow)
        /\ exc \notin MissingRecordErrors

\* The refresh program of the PPKUnPacker.
RefreshProg == IF up.mod = "lib.upack" THEN up.prog ELSE CstmgtPipRefresh

\* C12: refresh is called only after run has returned 0; when run returns another
\* code the process exits with that code and refresh is not called, and when run
\* returns 0 refresh is called and the process exits with the code of refresh.
C12_RefreshIffUnpackReturnedZero ==
    args.unpack =>
        /\ up.called \in {<<>>, <<"run">>, <<"run", "refresh">>}
        /\ Len(up.called) = 2 => (Len(up.returned) >= 1 /\ up.returned[1] = 0)
        /\ (pc = "exited" /\ Len(up.returned) >= 1) =>
              IF up.returned[1] # 0
              THEN up.called = <<"run">> /\ excode = up.returned[1]
              ELSE /\ up.called = <<"run", "refresh">>
                   /\ Len(up.returned) = 2
                   /\ excode = up.returned[2]

\* C13: a call of refresh raises nothing; when the refresh program is not found,
\* or no name is configured, it warns, starts nothing and returns 1; when the
\* program is found and cannot be started it returns 1; otherwise it returns the
\* exit code of the program.
C13_RefreshNeverRaises ==
    (Len(up.called) = 2 /\ pc \in {"returned", "raised"}) =>
        /\ exc = None
        /\ Len(up.returned) = 2
        /\ IF RefreshProg \notin up.path
           THEN up.warned /\ Len(up.started) = 1 /\ up.returned[2] = 1
           ELSE IF Len(up.started) = 1
           THEN up.returned[2] = 1
           ELSE up.started[2] = RefreshProg /\ up.returned[2] = up.exits[2]

-----------------------------------------------------------------------------
(* Two invocations of the pipeline side by side, each a process of its own    *)
(* with its own PPKPacker, on the one file system. cc.inv[p] is invocation p:  *)
(*   pc          the step of main it is at                                    *)
(*   tmpdir      its self._tmpdir (0: not set)                                *)
(*   pass        its self._pass                                               *)
(*   no_cleanup  its args.no_cleanup                                          *)
(*   foreign     the steps it made on a directory that another invocation     *)
(*               had created                                                  *)
(*   files       the file list it handed, or will hand, to 7z                 *)
(*   exc         the exception that ended it                                  *)
(* cc.owner[d] is the invocation that created directory d, while d exists.    *)

Invocations == {"a", "b"}

\* As makedirs, but with exist_ok=True.
makedirs_exist_ok(d) == [raised |-> FALSE, made |-> ~fs[d].exists]

\* os.makedirs(path): the directory is made, or it exists and FileExistsError
\* is raised; the system call decides it in one step.
makedirs(d) == [raised |-> fs[d].exists, made |-> ~fs[d].exists]

conc_vars == <<args, sysconfig, pc, runs, fields, now, ret, excode, exc, ghosts,
               lg, up, vt, ld>>

\* The name of the archive of the target, the same for every invocation in
\* package mode, and the archive an earlier run has left under it.
TargetArchive == _generate_archive_filename(TargetWhl.stem)

EarlierArchive ==
    [name  |-> TargetArchive.fname,
     pw    |-> TargetArchive.hash,
     files |-> {TargetWhl, LogName(TargetWhl.stem), KeyName(TargetWhl.stem)}]

InitConc ==
    /\ args \in {n \in Namespaces : ~n.unpack /\ ~n.from_req /\ ~n.no_cleanup
                                       /\ n.exclude = <<>> /\ n.python_version = <<>>}
    /\ sysconfig = [tests |-> <<"md5", "snyk">>]
    /\ pc = "off"
    /\ runs = 0
    /\ InitFields
    /\ fs = [d \in DirNames |-> NoDir]
    /\ desktop \in {{}, {EarlierArchive}}
    /\ now = 0
    /\ ret = -1
    /\ excode = -1
    /\ exc = None
    /\ results = <<>>
    /\ executed = {}
    /\ archiver = [invoked |-> FALSE, pass |-> FALSE, files |-> {}, wsfiles |-> {}]
    /\ lg = LegacyInit
    /\ up = NoUnpacker
    /\ vt = NoCall
    /\ ld = NoLedger
    /\ \E nc \in [Invocations -> BOOLEAN] :
          cc = [inv   |-> [p \in Invocations |->
                             [pc |-> "_make_download_directory", tmpdir |-> 0,
                              pass |-> FALSE, no_cleanup |-> nc[p], foreign |-> {},
                              files |-> {}, exc |-> None]],
                owner |-> [d \in DirNames |-> None]]

\* The step of invocation p on its self._tmpdir, noted if the directory is not
\* one that p created.
on_tmpdir(p, step) ==
    IF cc.owner[cc.inv[p].tmpdir] # p THEN cc.inv[p].foreign \cup {step}
    ELSE cc.inv[p].foreign

\* The name is drawn at random: any name.
conc_make_download_directory(p) ==
    /\ cc.inv[p].pc = "_make_download_directory"
    /\ \E d \in DirNames :
          LET m == makedirs(d)
          IN  /\ cc' = [cc EXCEPT !.inv[p].tmpdir = d,
                                  !.inv[p].pc = IF m.raised THEN "raised" ELSE "_pip_download",
                                  !.inv[p].exc = IF m.raised THEN "FileExistsError" ELSE @,
                                  !.owner[d] = IF m.made THEN p ELSE @]
              /\ fs' = IF m.made THEN [fs EXCEPT ![d] = EmptyDir] ELSE fs
    /\ UNCHANGED <<desktop, conc_vars>>

conc_pip_download(p) ==
    /\ cc.inv[p].pc = "_pip_download"
    /\ \E out \in DownloadOutcomes :
          /\ fs' = [fs EXCEPT ![cc.inv[p].tmpdir].files = @ \cup out.files]
          /\ cc' = [cc EXCEPT !.inv[p].pc = IF out.pkgpath # NoFile THEN "_verify_wheels"
                                            ELSE "return",
                              !.inv[p].foreign = on_tmpdir(p, "_pip_download")]
    /\ UNCHANGED <<desktop, conc_vars>>

conc_verify_wheels(p) ==
    /\ cc.inv[p].pc = "_verify_wheels"
    /\ \E flag \in BOOLEAN :
          cc' = [cc EXCEPT !.inv[p].pc = "_create_archive",
                           !.inv[p].pass = flag,
                           !.inv[p].foreign = on_tmpdir(p, "_verify_wheels")]
    /\ fs' = [fs EXCEPT ![cc.inv[p].tmpdir].files = @ \cup {LogName(TargetWhl.stem)}]
    /\ UNCHANGED <<desktop, conc_vars>>

\* _create_archive up to its test of os.path.exists(opath): the file list is
\* taken from the workspace, then the destination is looked at.
conc_create_archive(p) ==
    /\ cc.inv[p].pc = "_create_archive"
    /\ cc' = [cc EXCEPT !.inv[p].pc = IF ~cc.inv[p].pass THEN "_cleanup"
                                      ELSE IF \E a \in desktop : a.name = TargetArchive.fname
                                      THEN "os.unlink"
                                      ELSE "sp.Popen",
                        !.inv[p].files = IF cc.inv[p].pass THEN fs[cc.inv[p].tmpdir].files
                                         ELSE @,
                        !.inv[p].foreign = IF cc.inv[p].pass
                                           THEN on_tmpdir(p, "_create_archive") ELSE @]
    /\ UNCHANGED <<fs, desktop, conc_vars>>

\* os.unlink(opath): the archive is removed, or it is no longer there and
\* FileNotFoundError is raised.
conc_unlink(p) ==
    /\ cc.inv[p].pc = "os.unlink"
    /\ IF \E a \in desktop : a.name = TargetArchive.fname
       THEN /\ desktop' = unlink_archive(desktop, TargetArchive.fname)
            /\ cc' = [cc EXCEPT !.inv[p].pc = "sp.Popen"]
       ELSE /\ cc' = [cc EXCEPT !.inv[p].pc = "raised", !.inv[p].exc = "FileNotFoundError"]
            /\ UNCHANGED desktop
    /\ UNCHANGED <<fs, conc_vars>>

\* 7z a <opath> <files>, taken as one step.
conc_Popen(p) ==
    /\ cc.inv[p].pc = "sp.Popen"
    /\ desktop' = sevenzip_add(desktop, TargetArchive.fname, TargetArchive.hash,
                               cc.inv[p].files)
    /\ cc' = [cc EXCEPT !.inv[p].pc = "_cleanup"]
    /\ UNCHANGED <<fs, conc_vars>>

conc_cleanup(p) ==
    LET d      == cc.inv[p].tmpdir
        delete == ~cc.inv[p].no_cleanup /\ cc.inv[p].pass /\ fs[d].exists
    IN  /\ cc.inv[p].pc = "_cleanup"
        /\ cc' = [cc EXCEPT !.inv[p].pc = "return",
                            !.inv[p].foreign = IF delete THEN on_tmpdir(p, "_cleanup") ELSE @,
                            !.owner[d] = IF delete THEN None ELSE @]
        /\ fs' = IF delete THEN [fs EXCEPT ![d] = NoDir] ELSE fs
        /\ UNCHANGED <<desktop, conc_vars>>

conc_return(p) ==
    /\ cc.inv[p].pc = "return"
    /\ cc' = [cc EXCEPT !.inv[p].pc = "returned"]
    /\ UNCHANGED <<fs, desktop, conc_vars>>

NextConc ==
    \E p \in Invocations :
        \/ conc_make_download_directory(p)
        \/ conc_pip_download(p)
        \/ conc_verify_wheels(p)
        \/ conc_create_archive(p)
        \/ conc_unlink(p)
        \/ conc_Popen(p)
        \/ conc_cleanup(p)
        \/ conc_return(p)

SpecConc == InitConc /\ [][NextConc]_vars

\* Invocation p has made its workspace and has not come to the end of main.
Working(p) ==
    cc.inv[p].pc \in {"_pip_download", "_verify_wheels", "_create_archive", "os.unlink",
                      "sp.Popen", "_cleanup"}

\* C20: two invocations at work never have the same workspace directory; an
\* invocation that drew the name of a directory that exists has raised at the
\* creation and has made no step on it; and no invocation has downloaded into,
\* verified, archived or deleted a directory that another invocation created.
C20_WorkspacesAreDisjoint ==
    \A p \in Invocations :
        /\ cc.inv[p].foreign = {}
        /\ Working(p) => (fs[cc.inv[p].tmpdir].exists /\ cc.owner[cc.inv[p].tmpdir] = p)
        /\ \A q \in Invocations \ {p} :
              (Working(p) /\ Working(q)) => cc.inv[p].tmpdir # cc.inv[q].tmpdir

\* One invocation drew the name of the other's workspace and raised, and the
\* other went on to archive its own files.
C20_Witness ==
    /\ cc # NoInvocations
    /\ \E p \in Invocations : \E q \in Invocations \ {p} :
          /\ cc.inv[p].pc = "raised"
          /\ cc.inv[q].pc = "_cleanup"
          /\ cc.inv[q].pass
          /\ cc.inv[p].tmpdir = cc.inv[q].tmpdir

-----------------------------------------------------------------------------
(* The result ledger on its own: the _log of src/ppk/libs/pack.py and the     *)
(* _log of src/lib/pack.py, applied to one dictionary of results and to the   *)
(* same results with the configured tests in another order. ld is:            *)
(*   impl   the module whose _log is applied                                  *)
(*   res    the results: for each artifact the tuples its tests returned, in  *)
(*          configured order                                                  *)
(*   perm   another order of the configured tests                             *)
(*   done   whether _log has been applied                                     *)
(*   out    what _log wrote and gathered, the tests in configured order       *)
(*   outp   the same, the tests in the other order                            *)

\* The configured list has at most this many tests.
MaxTests == 2

\* What a test can return: the flag, then no, one or four supporting values,
\* whatever the flag.
ResultTuples ==
    {<<f>> : f \in BOOLEAN}
        \cup {<<f, c>> : f \in BOOLEAN, c \in {0, 1}}
        \cup {<<TRUE, 0, 0, 0, 1>>}

\* The orders of a list of n tests.
Perms(n) == {p \in [1..n -> 1..n] : \A i, j \in 1..n : p[i] = p[j] => i = j}

\* The results of the tests when the list is configured in the order p: each
\* test returns what it returns, wherever it stands in the list.
reordered(res, p) == [f \in DOMAIN res |-> [i \in 1..Len(res[f]) |-> res[f][p[i]]]]

NoOut == [rows |-> <<>>, passflags |-> <<>>, pass |-> FALSE]

Ledgers ==
    UNION {[impl : {"ppk.libs.pack", "lib.pack"},
            res  : [S -> [1..n -> ResultTuples]],
            perm : Perms(n),
            done : {FALSE},
            out  : {NoOut},
            outp : {NoOut}] : n \in 1..MaxTests, S \in (SUBSET {TargetWhl, DepGz}) \ {{}}}

\* _log(results) of src/ppk/libs/pack.py on a fresh object, and the overall
\* flag _verify_wheels takes from the flags it gathered.
ledger(res) ==
    LET pkgs == listing(DOMAIN res)
    IN  [rows      |-> _log(pkgs, res).rows,
         passflags |-> extend_flags(pkgs, res),
         pass      |-> all(extend_flags(pkgs, res))]

\* The line the earlier _log writes for one artifact.
legacy_log_row(k, v) ==
    [pkg    |-> k,
     vals   |-> chain(v),
     result |-> IF all(legacy_passflags(v)) THEN "pass" ELSE "fail"]

\* self._passflags.extend(v_[:2]), row after row
RECURSIVE legacy_extend_flags(_, _)
legacy_extend_flags(pkgs, res) ==
    IF pkgs = <<>> THEN <<>>
    ELSE legacy_passflags(res[Head(pkgs)]) \o legacy_extend_flags(Tail(pkgs), res)

\* _log(results) of src/lib/pack.py on a fresh object, and the overall flag.
legacy_ledger(res) ==
    LET pkgs == listing(DOMAIN res)
    IN  [rows      |-> [i \in 1..Len(pkgs) |-> legacy_log_row(pkgs[i], res[pkgs[i]])],
         passflags |-> legacy_extend_flags(pkgs, res),
         pass      |-> all(legacy_extend_flags(pkgs, res))]

ledger_vars == <<args, sysconfig, pc, runs, fields, fs, desktop, now, ret, excode, exc, ghosts,
                 lg, up, vt, cc>>

InitLedger ==
    /\ args \in {n \in Namespaces : ~n.unpack /\ ~n.from_req /\ ~n.no_cleanup /\ n.exclude = <<>>
                                       /\ n.python_version = <<>>}
    /\ sysconfig = [tests |-> <<"md5", "snyk">>]
    /\ pc = "off"
    /\ runs = 0
    /\ InitFields
    /\ fs = [d \in DirNames |-> NoDir]
    /\ desktop = {}
    /\ now = 0
    /\ ret = -1
    /\ excode = -1
    /\ exc = None
    /\ results = <<>>
    /\ executed = {}
    /\ archiver = [invoked |-> FALSE, pass |-> FALSE, files |-> {}, wsfiles |-> {}]
    /\ lg = LegacyInit
    /\ up = NoUnpacker
    /\ vt = NoCall
    /\ cc = NoInvocations
    /\ ld \in Ledgers

ledger_log ==
    /\ ld.impl = "ppk.libs.pack"
    /\ ~ld.done
    /\ ld' = [ld EXCEPT !.done = TRUE,
                        !.out = ledger(ld.res),
                        !.outp = ledger(reordered(ld.res, ld.perm))]
    /\ UNCHANGED ledger_vars

legacy_log ==
    /\ ld.impl = "lib.pack"
    /\ ~ld.done
    /\ ld' = [ld EXCEPT !.done = TRUE,
                        !.out = legacy_ledger(ld.res),
                        !.outp = legacy_ledger(reordered(ld.res, ld.perm))]
    /\ UNCHANGED ledger_vars

NextLedger ==
    \/ ledger_log
    \/ legacy_log

SpecLedger == InitLedger /\ [][NextLedger]_vars

\* Every test's tuple for artifact f starts with a true flag.
EveryFlag(f) == \A j \in 1..Len(ld.res[f]) : ld.res[f][j][1]

\* C21: the log of src/ppk/libs/pack.py has one row for each artifact, whose
\* result is pass if and only if the first element of every test's tuple for the
\* artifact is true, and the overall flag is true if and only if that holds for
\* every artifact, whatever the number of tests, the lengths of their tuples and
\* the values that follow the flags.
C21_RowPassIffEveryFlag ==
    (ld.done /\ ld.impl = "ppk.libs.pack") =>
        LET pkgs == listing(DOMAIN ld.res)
        IN  /\ Len(ld.out.rows) = Len(pkgs)
            /\ \A i \in 1..Len(pkgs) :
                  /\ ld.out.rows[i].pkg = pkgs[i]
                  /\ ld.out.rows[i].result = (IF EveryFlag(pkgs[i]) THEN "pass" ELSE "fail")
            /\ ld.out.pass <=> \A f \in DOMAIN ld.res : EveryFlag(f)

\* Two artifacts and two tests: one artifact passes with a count that is not
\* zero after a true flag, the other fails with zero after a false flag.
C21_Witness ==
    /\ ld.done
    /\ ld.impl = "ppk.libs.pack"
    /\ DOMAIN ld.res = {TargetWhl, DepGz}
    /\ ld.res[TargetWhl] = <<<<TRUE>>, <<TRUE, 1>>>>
    /\ ld.res[DepGz] = <<<<TRUE>>, <<FALSE, 0>>>>
    /\ ~ld.out.pass
    /\ \E i \in 1..2 : ld.out.rows[i].pkg = TargetWhl /\ ld.out.rows[i].result = "pass"

\* C23: with the configured tests in another order, every artifact's row has the
\* same result and the overall flag is the same.
C23_OrderOfTestsIsIrrelevant ==
    ld.done =>
        /\ ld.outp.pass = ld.out.pass
        /\ Len(ld.outp.rows) = Len(ld.out.rows)
        /\ \A i \in 1..Len(ld.out.rows) : ld.outp.rows[i].result = ld.out.rows[i].result

-----------------------------------------------------------------------------
(* More claims about PPKPacker.main, under Spec. *)

\* C22: once the Result line is written the log holds one row for each artifact
\* verified in this invocation, the line reads PASS if and only if every flag of
\* every test of every one of these artifacts is true, and when main has returned
\* its value is 0 with PASS and 1 with FAIL.
C22_ResultLineIsRunWideAggregate ==
    ("_log_summary" \in executed /\ fs[_p_log.dir].exists) =>
        LET log == fs[_p_log.dir].log
        IN  /\ Len(log.rows) = Cardinality(DOMAIN results)
            /\ log.summary \in {"PASS", "FAIL"}
            /\ log.summary = "PASS" <=> AllPassNow
            /\ pc = "returned" => (ret = (IF log.summary = "PASS" THEN 0 ELSE 1))

\* C26: the reachability check is the first step of an invocation of main, and
\* when it raises no other step of main has run: the download was not called, the
\* archiver was not invoked, and the invocation has made no directory and no
\* archive; after the only invocation of a process nothing exists at all.
C26_UnreachableIndexAbortsFirst ==
    /\ executed # {} => "_is_accessible" \in executed
    /\ (pc = "raised" /\ executed = {"_is_accessible"}) =>
          /\ exc = "RuntimeError"
          /\ ~archiver.invoked
          /\ Cardinality({d \in DirNames : fs[d].exists}) < runs
          /\ Cardinality(desktop) < runs
          /\ runs = 1 => (_tmpdir = 0 /\ _p_log = NoPath /\ _p_key = NoPath)
    /\ (pc = "exited" /\ executed = {"_is_accessible"}) =>
          /\ excode = 73
          /\ desktop = {}
          /\ \A d \in DirNames : fs[d] = NoDir

C26_Witness ==
    /\ pc = "exited"
    /\ executed = {"_is_accessible"}
    /\ exc = "RuntimeError"
    /\ runs = 1
    /\ \A d \in DirNames : fs[d] = NoDir

\* C30: a step of _create_archive that ends with the archiver's error leaves
\* every archive that was at the destination where it was, as it was.
C30_FailedArchiverKeepsEarlierArchive ==
    [][(pc = "_create_archive" /\ pc' = "raised") => \A a \in desktop : a \in desktop']_vars

-----------------------------------------------------------------------------
(* PPKPacker.main and Main.run on further inputs: targets that carry a version *)
(* constraint, an exclude list that names the target, and configurations with  *)
(* other lists of tests.                                                       *)

\* The comparison operators of a target, as the lists of their characters.
Operators == {<<"<">>, <<">">>, <<"<", "=">>, <<">", "=">>, <<"=", "=">>}

\* A target with an operator: the name, the operator, the version.
Constrained(op) == <<"preqs">> \o op \o <<"0.2.0">>

\* Namespaces with these targets, with the target in the exclude list, and the
\* one of the unpack path.
Requests ==
    [package        : {<<"preqs">>} \cup {Constrained(op) : op \in Operators},
     from_req       : {FALSE},
     no_cleanup     : {TRUE},
     exclude        : {<<>>},
     platform       : {<<>>},
     python_version : {<<>>},
     unpack         : {FALSE}]
    \cup
    [package        : {<<"preqs">>},
     from_req       : {FALSE},
     no_cleanup     : {FALSE},
     exclude        : {<<"preqs">>},
     platform       : {<<>>},
     python_version : {<<>>},
     unpack         : {FALSE}]
    \cup
    {n \in Namespaces : n.unpack}

\* The lists of tests of a configuration: the two tests, one of them, and lists
\* with a name that is no method of the tests class.
Configs ==
    {[tests |-> t] : t \in {<<"md5", "snyk">>, <<"snyk">>, <<"md5", "sha256">>, <<"sha256">>}}

InitInputs ==
    /\ args \in Requests
    /\ sysconfig \in (IF args.unpack \/ Len(args.package) > 1
                      THEN {[tests |-> <<"md5", "snyk">>]} ELSE Configs)
    /\ pc = "idle"
    /\ runs = 0
    /\ InitFields
    /\ fs = [d \in DirNames |-> NoDir]
    /\ desktop = {}
    /\ now = 0
    /\ ret = -1
    /\ excode = -1
    /\ exc = None
    /\ results = <<>>
    /\ executed = {}
    /\ archiver = [invoked |-> FALSE, pass |-> FALSE, files |-> {}, wsfiles |-> {}]
    /\ lg = LegacyInit
    /\ up \in (IF args.unpack THEN Unpackers ELSE {NoUnpacker})
    /\ vt = NoCall
    /\ cc = NoInvocations
    /\ ld = NoLedger

SpecInputs == InitInputs /\ [][Next]_vars

\* A configured name is no method of the tests class.
UnknownTest == \E i \in 1..Len(sysconfig.tests) : sysconfig.tests[i] \notin TestMethods

\* The verification step of this invocation has run and has not completed.
VerifyAborted == "_verify_wheels" \in executed /\ "_log_summary" \notin executed /\ pc # "_log_summary"

\* C24: when the verification step completes, every file of the workspace has
\* one result of each configured test, in configured order, and its row in the
\* log, whether tests failed or not; the step does not end on a test that
\* fails, which a missing index record is; and with a configured name that is
\* no test the step ends with an error and leaves no log and no archive.
C24_EveryTestDispatchedOrAbort ==
    "_verify_wheels" \in executed =>
        /\ UnknownTest =>
              /\ VerifyAborted
              /\ exc \in {"AttributeError", "TypeError"}
              /\ ~archiver.invoked
              /\ \A f \in fs[_tmpdir].files : f.ext # "log"
        /\ VerifyAborted => exc \notin MissingRecordErrors
        /\ (~VerifyAborted /\ fs[_tmpdir].exists) =>
              /\ DOMAIN results = Artifacts(_tmpdir)
              /\ \A f \in DOMAIN results :
                    /\ Len(results[f]) = Len(sysconfig.tests)
                    /\ \A i \in 1..Len(sysconfig.tests) :
                          results[f][i] \in TestOutcomes(sysconfig.tests[i])
              /\ {fs[_tmpdir].log.rows[i].pkg : i \in 1..Len(fs[_tmpdir].log.rows)}
                    = DOMAIN results

\* The place of the first and of the last operator character of a target.
FirstOp(pkg) == CHOOSE i \in 1..Len(pkg) : pkg[i] \in chars /\ \A h \in 1..(i - 1) : pkg[h] \notin chars

LastOp(pkg) == CHOOSE i \in 1..Len(pkg) : pkg[i] \in chars /\ \A h \in (i + 1)..Len(pkg) : pkg[h] \notin chars

\* C25: in package mode the name normalization raises nothing; for a target with
\* an operator the name is the text before the operator and the requested
\* version the text after it, and for a target without one the name is the whole
\* text and there is no requested version.
C25_TargetSplitsAtOperator ==
    (~args.from_req /\ "_set_package_name" \in executed) =>
        LET pkg == args.package
        IN  /\ ~(exc # None /\ executed = {"_is_accessible", "_set_package_name"})
            /\ IF \E i \in 1..Len(pkg) : pkg[i] \in chars
               THEN /\ _name = normalise_name(join(SubSeq(pkg, 1, FirstOp(pkg) - 1)))
                    /\ _namev = join(SubSeq(pkg, LastOp(pkg) + 1, Len(pkg)))
               ELSE /\ _name = normalise_name(join(pkg))
                    /\ _namev = None

\* C28: when the verification step found no artifact in the workspace, the
\* archiver is not invoked and main does not return 0.
C28_NoPassWithoutVerifiedArtifact ==
    ("_log_summary" \in executed /\ DOMAIN results = {}) =>
        /\ ~_pass
        /\ ~archiver.invoked
        /\ pc = "returned" => ret # 0

-----------------------------------------------------------------------------
(* The requirements file of the earlier pipeline, under SpecLegacy. *)

\* C27: the copy of the requirements file is made in requirements mode only,
\* after the files were tested and the log was written and before the archive
\* is created; the copying raises nothing, and the file copied is the file at
\* the path the caller passed, which is the path pip was given after -r.
C27_CopyIsTheCallersFile ==
    /\ lg.copied # None => (args.from_req /\ lg.logged)
    /\ lg.exc # "FileNotFoundError"
    /\ lg.pc = "_create_archive" =>
          IF args.from_req
          THEN lg.copied = join(args.package) /\ lg.copied = lg.reqarg
          ELSE lg.copied = None

-----------------------------------------------------------------------------
(* The archive of two invocations for the same target, under SpecConc. *)

\* C29: no invocation is ended by FileNotFoundError at the deletion of the
\* archive it had found, and an archive at the destination under the target's
\* name is the one an earlier run left or holds the file list of exactly one
\* invocation.
C29_ArchiveStepsDoNotInterfere ==
    /\ \A p \in Invocations : cc.inv[p].exc # "FileNotFoundError"
    /\ \A a \in desktop :
          \/ a = EarlierArchive
          \/ \E p \in Invocations : cc.inv[p].pass /\ a.files = cc.inv[p].files

====
